---- MODULE Spec2Model ----
(***************************************************************************)
(* A model of nematus/model_updater.py: ModelUpdater.update, the three     *)
(* minibatch-splitting helpers it calls, and the accumulate / apply /      *)
(* reset operations of _ModelUpdateGraph that it runs through the session. *)
(*                                                                         *)
(* Representation.  A mask (numpy shape (seq_len, batch_size)) is a        *)
(* sequence over the batch axis of columns; a column is a sequence of 0/1  *)
(* over the sequence axis.  x and y are represented by the identities      *)
(* 1..batch_size of their examples (their token content is never read by   *)
(* the code modelled here).  Indices into the batch axis are 0-based as in *)
(* the source; a[p:q] is SubSeq(a, p+1, q).  Floating point numbers are    *)
(* exact rationals [num, den], with den = 0 standing for numpy's nan.      *)
(***************************************************************************)
EXTENDS Integers, Sequences, FiniteSets, TLC

\* ------------------------------------------------------------------ bounds
MaxSents == 3
MaxLen == 1
MaxReplicas == 3
MaxAggSteps == 2
MaxSentsPerDevice == 2
MaxTokensPerDevice == 2
MaxUpdateSents == 2
MaxUpdateReplicas == 2
MaxCalls == 3
MaxLoss == 1
MaxGrad == 1

\* ----------------------------------------------------------------- helpers
None == [raised |-> "no", none |-> TRUE]

max(a, b) == IF a >= b THEN a ELSE b

\* Python's sum() / numpy.sum over a sequence of integers.
RECURSIVE sum(_)
sum(s) == IF s = <<>> THEN 0 ELSE Head(s) + sum(Tail(s))

\* Python's max() / numpy.max over a non-empty sequence of integers.
RECURSIVE max_of(_)
max_of(s) == IF Len(s) = 1 THEN s[1] ELSE max(Head(s), max_of(Tail(s)))

\* math.ceil(a / b) for a >= 0, b > 0 (true division, then ceiling).
ceil_div(a, b) == IF a % b = 0 THEN a \div b ELSE (a \div b) + 1

\* numpy.sum(mask, axis=0): the number of 1s of each example's column.
lengths_of(mask) == [b \in 1..Len(mask) |-> sum(mask[b])]

\* numpy.sum(mask): the number of 1s of the whole array.
mask_total(mask) == sum(lengths_of(mask))

RECURSIVE gcd(_, _)
gcd(a, b) == IF b = 0 THEN a ELSE gcd(b, a % b)

\* A float as an exact rational in lowest terms; den = 0 is nan.
NaN == [num |-> 0, den |-> 0]
rat(n, d) == IF d = 0 THEN NaN
             ELSE LET g == gcd(IF n < 0 THEN -n ELSE n, d)
                  IN [num |-> n \div g, den |-> d \div g]
rat_add(a, b) == IF a.den = 0 \/ b.den = 0 THEN NaN
                 ELSE rat(a.num * b.den + b.num * a.den, a.den * b.den)
rat_mul(a, b) == IF a.den = 0 \/ b.den = 0 THEN NaN
                 ELSE rat(a.num * b.num, a.den * b.den)
Zero == [num |-> 0, den |-> 1]
One == [num |-> 1, den |-> 1]

RECURSIVE rat_sum(_)
rat_sum(s) == IF s = <<>> THEN Zero ELSE rat_add(Head(s), rat_sum(Tail(s)))

\* ------------------------------------------- ModelUpdater._split_minibatch_into_n
\* A soft limit that leaves the target side out of the total.
soft_limit_without_target(source_lengths, target_lengths, n) ==
    ceil_div(max_of(source_lengths) * Len(source_lengths), n)

\* soft_limit = math.ceil((s_total + t_total) / n)
soft_limit_of(source_lengths, target_lengths, n) ==
    LET num_sents == Len(source_lengths)
        s_total == max_of(source_lengths) * num_sents
        t_total == max_of(target_lengths) * num_sents
    IN ceil_div(s_total + t_total, n)

\* A split that closes the sub-batch before the over-filling sentence.
into_n_next_start_point_before(j) == j

\* A start point that is one sentence too early.
into_n_next_start_point_back(j) == j - 1

\* The start point recorded when adding sentence j over-fills the sub-batch:
\* next_start_point = j + 1 ("allow the sub-batch to be over-filled, but only by one
\* sentence worth of tokens").
into_n_next_start_point(j) == j + 1

\* A limit test that also fires when the sub-batch exactly fills the soft limit.
into_n_over_limit_inclusive(s_tokens, t_tokens, soft_limit) ==
    s_tokens + t_tokens >= soft_limit

\* if s_tokens + t_tokens > soft_limit
into_n_over_limit(s_tokens, t_tokens, soft_limit) ==
    s_tokens + t_tokens > soft_limit

\* The for loop over j in range(i+1, num_sents); the result is next_start_point
\* (None when the loop ends without a break).  s_longest and t_longest are the
\* running maxima on entry to iteration j.
RECURSIVE into_n_scan(_, _, _, _, _, _, _)
into_n_scan(source_lengths, target_lengths, soft_limit, i, j, s_longest, t_longest) ==
    IF j >= Len(source_lengths) THEN None
    ELSE LET s == max(s_longest, source_lengths[j + 1])
             t == max(t_longest, target_lengths[j + 1])
             s_tokens == s * (j - i + 1)
             t_tokens == t * (j - i + 1)
         IN IF into_n_over_limit(s_tokens, t_tokens, soft_limit)
            THEN [raised |-> "no", none |-> FALSE, value |-> into_n_next_start_point(j)]
            ELSE into_n_scan(source_lengths, target_lengths, soft_limit, i, j + 1, s, t)

\* The while True loop: one iteration per call, start_points as built so far.
RECURSIVE into_n_loop(_, _, _, _)
into_n_loop(source_lengths, target_lengths, soft_limit, start_points) ==
    LET num_sents == Len(source_lengths)
        i == start_points[Len(start_points)]
        next_start_point == into_n_scan(source_lengths, target_lengths, soft_limit,
                                        i, i + 1, source_lengths[i + 1],
                                        target_lengths[i + 1])
    IN IF next_start_point.none \/ next_start_point.value >= num_sents
       THEN start_points
       ELSE into_n_loop(source_lengths, target_lengths, soft_limit,
                        Append(start_points, next_start_point.value))

\* The whole function; raises AssertionError when len(start_points) > n.
split_minibatch_into_n(x_mask, y_mask, n) ==
    LET source_lengths == lengths_of(x_mask)
        target_lengths == lengths_of(y_mask)
        soft_limit == soft_limit_of(source_lengths, target_lengths, n)
        start_points == into_n_loop(source_lengths, target_lengths, soft_limit, <<0>>)
    IN IF Len(start_points) <= n
       THEN [raised |-> "no", value |-> start_points]
       ELSE [raised |-> "AssertionError", value |-> <<>>]

\* ---------------------------------- ModelUpdater._split_minibatch_for_device_size
\* A limit test that looks at the source side only.
device_over_limit_source_only(s_tokens, t_tokens, max_tokens_per_device) ==
    s_tokens > max_tokens_per_device

\* if (s_tokens > max_tokens_per_device or t_tokens > max_tokens_per_device)
device_over_limit(s_tokens, t_tokens, max_tokens_per_device) ==
    s_tokens > max_tokens_per_device \/ t_tokens > max_tokens_per_device

\* The for loop of the token-limited branch.
RECURSIVE device_scan(_, _, _, _, _, _, _)
device_scan(source_lengths, target_lengths, max_tokens_per_device, i, j, s_longest, t_longest) ==
    IF j >= Len(source_lengths) THEN None
    ELSE LET s == max(s_longest, source_lengths[j + 1])
             t == max(t_longest, target_lengths[j + 1])
             s_tokens == s * (j - i + 1)
             t_tokens == t * (j - i + 1)
         IN IF device_over_limit(s_tokens, t_tokens, max_tokens_per_device)
            THEN [raised |-> "no", none |-> FALSE, value |-> j]
            ELSE device_scan(source_lengths, target_lengths, max_tokens_per_device,
                             i, j + 1, s, t)

\* The while True loop of the token-limited branch.
RECURSIVE device_loop(_, _, _, _)
device_loop(source_lengths, target_lengths, max_tokens_per_device, start_points) ==
    LET i == start_points[Len(start_points)]
        next_start_point == device_scan(source_lengths, target_lengths,
                                        max_tokens_per_device, i, i + 1,
                                        source_lengths[i + 1], target_lengths[i + 1])
    IN IF next_start_point.none
       THEN start_points
       ELSE device_loop(source_lengths, target_lengths, max_tokens_per_device,
                        Append(start_points, next_start_point.value))

\* The sentence-limited branch, line 193: range(0, num_sents, max_sents_per_device)
\* reads the local num_sents, which this branch never assigns (it is assigned only
\* in the else branch, line 198): Python raises UnboundLocalError.
device_sents_branch(x_mask, max_sents_per_device) ==
    [raised |-> "UnboundLocalError", value |-> <<>>]

\* The whole function.  The two asserts reject both limits set and neither set.
split_minibatch_for_device_size(x_mask, y_mask, max_sents_per_device, max_tokens_per_device) ==
    IF ~(max_sents_per_device = 0 \/ max_tokens_per_device = 0)
       \/ (max_sents_per_device = 0 /\ max_tokens_per_device = 0)
    THEN [raised |-> "AssertionError", value |-> <<>>]
    ELSE IF max_sents_per_device # 0
    THEN device_sents_branch(x_mask, max_sents_per_device)
    ELSE [raised |-> "no",
          value |-> device_loop(lengths_of(x_mask), lengths_of(y_mask),
                                max_tokens_per_device, <<0>>)]

\* ------------------------------------------ ModelUpdater._split_and_pad_minibatch
\* split_array: a[..., p:q] for p, q in zip(start_points, start_points[1:] + [batch_size])
split_array(a, start_points) ==
    LET batch_size == Len(a)
        next_points == Tail(start_points) \o <<batch_size>>
    IN [k \in 1..Len(start_points) |-> SubSeq(a, start_points[k] + 1, next_points[k])]

\* int(numpy.max(numpy.sum(m, axis=0))) for each sub-batch mask m.
max_lens_of(split_mask) ==
    [k \in 1..Len(split_mask) |-> max_of(lengths_of(split_mask[k]))]

\* trim_arrays on masks: a[..., 0:l, :] keeps the first l positions of every column.
trim_arrays(arrays, new_seq_lens) ==
    [k \in 1..Len(arrays) |->
        [b \in 1..Len(arrays[k]) |-> SubSeq(arrays[k][b], 1, new_seq_lens[k])]]

\* A weight that counts the source tokens only.
sub_batch_weight_source_only(s, t) == mask_total(s)

\* The weight of one sub-batch: numpy.sum(s) + numpy.sum(t) of its trimmed masks.
sub_batch_weight(s, t) == mask_total(s) + mask_total(t)

\* A padding size that forgets the remainder == 0 case.
padding_size_always(n_start_points, n_replicas) ==
    n_replicas - (n_start_points % n_replicas)

\* padding_size = 0 if remainder == 0 else len(self._replicas) - remainder
padding_size_of(n_start_points, n_replicas) ==
    LET remainder == n_start_points % n_replicas
    IN IF remainder = 0 THEN 0 ELSE n_replicas - remainder

\* pad: dummy_array = split_a[0][..., -1:], appended padding_size times.
pad(split_a, padding_size) ==
    LET first == split_a[1]
        dummy_array == SubSeq(first, Len(first), Len(first))
    IN split_a \o [k \in 1..padding_size |-> dummy_array]

\* A padding that gives the dummy sub-batches the weight of one token.
pad_weights_one_token(weights, padding_size) == weights \o [k \in 1..padding_size |-> 1]

\* for i in range(padding_size): weights.append(0.0)
pad_weights(weights, padding_size) == weights \o [k \in 1..padding_size |-> 0]

split_and_pad_minibatch(x, x_mask, y, y_mask, start_points, n_replicas) ==
    LET sx == split_array(x, start_points)
        sxm == split_array(x_mask, start_points)
        sy == split_array(y, start_points)
        sym == split_array(y_mask, start_points)
        txm == trim_arrays(sxm, max_lens_of(sxm))
        tym == trim_arrays(sym, max_lens_of(sym))
        weights == [k \in 1..Len(start_points) |-> sub_batch_weight(txm[k], tym[k])]
        padding_size == padding_size_of(Len(start_points), n_replicas)
    IN [split_x |-> pad(sx, padding_size),
        split_x_mask |-> pad(txm, padding_size),
        split_y |-> pad(sy, padding_size),
        split_y_mask |-> pad(tym, padding_size),
        weights |-> pad_weights(weights, padding_size)]

\* ------------------------------------------------------------ ModelUpdater.update
\* A choice of policy whose fixed count adds the two factors instead of
\* multiplying them.
update_start_points_added(cfg, x_mask, y_mask) ==
    IF cfg.max_sentences_per_device # 0 \/ cfg.max_tokens_per_device # 0
    THEN split_minibatch_for_device_size(x_mask, y_mask, cfg.max_sentences_per_device,
                                         cfg.max_tokens_per_device)
    ELSE split_minibatch_into_n(x_mask, y_mask,
                                cfg.replicas + cfg.gradient_aggregation_steps)

\* The choice of split policy, lines 69-76.
update_start_points(cfg, x_mask, y_mask) ==
    IF cfg.max_sentences_per_device # 0 \/ cfg.max_tokens_per_device # 0
    THEN split_minibatch_for_device_size(x_mask, y_mask, cfg.max_sentences_per_device,
                                         cfg.max_tokens_per_device)
    ELSE split_minibatch_into_n(x_mask, y_mask,
                                cfg.replicas * cfg.gradient_aggregation_steps)

\* normalized_weights = [w / sum(weights) for w in weights].  The weights are numpy
\* scalars, so a zero sum gives nan (with a RuntimeWarning), not ZeroDivisionError.
normalize(weights) == [k \in 1..Len(weights) |-> rat(weights[k], sum(weights))]

\* ------------------------------------------------------------------- state
VARIABLES
    config,               \* self._config, len(self._replicas), the summary writer
    pc,                   \* where update is: "idle", "accumulate", "apply", "reset"
    args,                 \* x, x_mask, y, y_mask, write_summary of the latest call
    start_points,         \* update's local start_points
    split,                \* what _split_and_pad_minibatch returned
    normalized_weights,   \* update's local normalized_weights
    i,                    \* the loop variable of the accumulate loop
    accumulated_loss,     \* _ModelUpdateGraph._accumulated_loss
    accumulated_gradient, \* _ModelUpdateGraph._accumulated_gradients (one parameter)
    apply_ops,            \* _ModelUpdateGraph._apply_ops
    global_step,          \* the optimizer's global step
    outcome,              \* how the latest call ended, "running" while it runs
    calls,                \* the number of update calls so far
    outputs,              \* what each replica computed for each sub-batch dispatched
    step,                 \* the step of update that ran last: "split", "accumulate", ...
    ops_log,              \* the last two operations run on the accumulator
    call_ops,             \* the accumulator operations the latest call ran
    grad_is_none,         \* per replica: compute_gradients gave None for the variable
    accum_ops,            \* _ModelUpdateGraph._accum_ops: "undefined", "built", or the
                          \* exception that _define_accum_ops raised
    round_feed,           \* the gradients and weights of the round run on accum_ops
    feeds,                \* the feed_dict of every round the latest call dispatched
    round_returns         \* the replicas' results of the round in flight

vars == <<config, pc, args, start_points, split, normalized_weights, i,
          accumulated_loss, accumulated_gradient, apply_ops, global_step,
          outcome, calls, outputs, step, ops_log, call_ops,
          grad_is_none, accum_ops, round_feed, feeds, round_returns>>

graph_vars == <<grad_is_none, accum_ops, round_feed>>

\* ------------------------------------------------------------------ inputs
\* A mask column with `len` real tokens followed by padding, as nematus builds it.
column(len, seq_len) == [t \in 1..seq_len |-> IF t <= len THEN 1 ELSE 0]

mask_of(lengths, seq_len) == [b \in 1..Len(lengths) |-> column(lengths[b], seq_len)]

minibatch_of(source_lengths, target_lengths) ==
    [x |-> [b \in 1..Len(source_lengths) |-> b],
     x_mask |-> mask_of(source_lengths, max_of(source_lengths)),
     y |-> [b \in 1..Len(target_lengths) |-> b],
     y_mask |-> mask_of(target_lengths, max_of(target_lengths))]

\* The lengths of the two documented scenarios (fixed split, token-limited split).
ScenarioLengths == {[source |-> <<3, 5, 2, 4>>, target |-> <<2, 3, 1, 2>>],
                    [source |-> <<10, 10, 10>>, target |-> <<10, 10, 10>>]}
ScenarioTokenLimits == {15}

fixed_count_policy_of(cfg) ==
    cfg.max_sentences_per_device = 0 /\ cfg.max_tokens_per_device = 0

\* The configurations: exactly one split policy each.
Configs(max_replicas, token_limits, writers) ==
    LET base == [replicas : 1..max_replicas, summary_writer : writers,
                 max_sentences_per_device : {0}, max_tokens_per_device : {0},
                 gradient_aggregation_steps : {1}]
    IN {[c EXCEPT !.gradient_aggregation_steps = a] : c \in base, a \in 1..MaxAggSteps}
       \cup {[c EXCEPT !.max_sentences_per_device = k] : c \in base, k \in 1..MaxSentsPerDevice}
       \cup {[c EXCEPT !.max_tokens_per_device = l] : c \in base, l \in token_limits}

NoArgs == [x |-> <<>>, x_mask |-> <<>>, y |-> <<>>, y_mask |-> <<>>, write_summary |-> FALSE]
NoSplit == [split_x |-> <<>>, split_x_mask |-> <<>>, split_y |-> <<>>,
            split_y_mask |-> <<>>, weights |-> <<>>]

\* _ModelUpdateGraph.__init__: the accumulators are created zero, the op lists built.
InitGraph ==
    /\ accumulated_loss = Zero
    /\ accumulated_gradient = Zero
    /\ apply_ops = <<"global_step", "apply_grads", "final_loss">>
    /\ global_step = 0

NoFeed == [ran |-> FALSE, grads |-> <<>>, weights |-> <<>>]

\* ModelUpdater.__init__ up to the building of the accumulate ops.
InitState(configs) ==
    /\ config \in configs
    /\ pc = "idle"
    /\ args = NoArgs
    /\ start_points = <<>>
    /\ split = NoSplit
    /\ normalized_weights = <<>>
    /\ i = 0
    /\ InitGraph
    /\ outcome = "none"
    /\ calls = 0
    /\ outputs = <<>>
    /\ step = "none"
    /\ ops_log = <<>>
    /\ call_ops = <<>>
    /\ round_feed = NoFeed
    /\ feeds = <<>>
    /\ round_returns = <<>>

\* A ModelUpdater whose graph was built: every replica reports a gradient.
InitWith(configs) ==
    /\ InitState(configs)
    /\ grad_is_none = [j \in 1..config.replicas |-> FALSE]
    /\ accum_ops = "built"

\* ------------------------------------------------- update, lines 61-87
\* The split, the padding and the normalization, up to the accumulate loop.
UpdateSplit(mb, write_summary) ==
    /\ pc = "idle"
    /\ calls < MaxCalls
    /\ calls' = calls + 1
    /\ step' = "split"
    /\ outputs' = <<>>
    /\ call_ops' = <<>>
    /\ feeds' = <<>>
    /\ round_returns' = <<>>
    /\ i' = 0
    /\ LET sp == update_start_points(config, mb.x_mask, mb.y_mask)
       IN IF sp.raised # "no"
          THEN /\ pc' = "idle"
               /\ outcome' = sp.raised
               /\ args' = NoArgs
               /\ start_points' = <<>>
               /\ split' = NoSplit
               /\ normalized_weights' = <<>>
          ELSE LET r == split_and_pad_minibatch(mb.x, mb.x_mask, mb.y, mb.y_mask,
                                                sp.value, config.replicas)
               IN /\ pc' = "accumulate"
                  /\ outcome' = "running"
                  /\ args' = [x |-> mb.x, x_mask |-> mb.x_mask, y |-> mb.y,
                              y_mask |-> mb.y_mask, write_summary |-> write_summary]
                  /\ start_points' = sp.value
                  /\ split' = r
                  /\ normalized_weights' = normalize(r.weights)
    /\ UNCHANGED <<config, accumulated_loss, accumulated_gradient, apply_ops,
                   global_step, ops_log>>
    /\ UNCHANGED graph_vars

\* ------------------------------------------------ the splitting on its own
InitSplit ==
    InitWith(Configs(MaxReplicas, 1..MaxTokensPerDevice \cup ScenarioTokenLimits, {TRUE}))

\* update called on every minibatch of up to MaxSents examples with source and
\* target lengths up to MaxLen.
SplitAny ==
    /\ pc = "idle" /\ calls = 0
    /\ \E n \in 1..MaxSents :
           \E s \in [1..n -> 0..MaxLen], t \in [1..n -> 0..MaxLen] :
               UpdateSplit(minibatch_of(s, t), FALSE)

\* update called on the minibatches of the documented scenarios.
SplitScenario ==
    /\ pc = "idle" /\ calls = 0
    /\ \E l \in ScenarioLengths : UpdateSplit(minibatch_of(l.source, l.target), FALSE)

NextSplit == SplitAny \/ SplitScenario

SpecSplit == InitSplit /\ [][NextSplit]_vars

\* ------------------------------------- _ModelUpdateGraph._define_accum_ops
\* summed_loss = sum(weighted_losses), weighted_losses[j] = loss * replica_weights[j].
summed_loss_of(losses, weights) ==
    rat_sum([j \in 1..Len(losses) |-> rat_mul(rat(losses[j], 1), weights[j])])

\* A gradient the optimizer reports for the variable, and the None it reports when
\* the replica's loss does not depend on the variable.
grad_of(g) == [none |-> FALSE, value |-> g]
NoneGrad == [none |-> TRUE, value |-> 0]

\* The sum in which a replica whose gradient is None counts as zero, and which is
\* None only when every replica's gradient is None.
sum_gradients_skipping_none(grads, weights) ==
    IF \A j \in 1..Len(grads) : grads[j].none
    THEN [none |-> TRUE, value |-> Zero]
    ELSE [none |-> FALSE,
          value |-> rat_sum([j \in 1..Len(grads) |->
                                IF grads[j].none THEN Zero
                                ELSE rat_mul(rat(grads[j].value, 1), weights[j])])]

\* _sum_gradients for one variable: (None, var) as soon as one replica's gradient
\* is None (found_none_value), else reduce_sum over the replicas of g * weights[i].
sum_gradients(grads, weights) ==
    IF \E j \in 1..Len(grads) : grads[j].none
    THEN [none |-> TRUE, value |-> Zero]
    ELSE [none |-> FALSE,
          value |-> rat_sum([j \in 1..Len(grads) |->
                                rat_mul(rat(grads[j].value, 1), weights[j])])]

\* What one replica computes for its sub-batch: a loss and the gradient of the
\* (single) trainable variable.
ReplicaOutputs == [loss : 0..MaxLoss, grad : 0..MaxGrad]

\* The last two operations run on the accumulator.
logged(log, op) == IF Len(log) < 2 THEN Append(log, op) ELSE <<log[2], op>>

\* update's locals go out of scope when the call ends.
EndCall(how) ==
    /\ pc' = "idle"
    /\ outcome' = how
    /\ args' = NoArgs
    /\ start_points' = <<>>
    /\ split' = NoSplit
    /\ normalized_weights' = <<>>
    /\ outputs' = <<>>
    /\ i' = 0
    /\ feeds' = <<>>
    /\ round_returns' = <<>>

\* ------------------------------------------------ update, lines 89-100
\* An index that takes every round's sub-batches from the start of the list.
feed_index_first_round(first, j) == j

\* The index i+j of the sub-batch (and of the weight) fed to replica j.
feed_index(first, j) == first + j

\* The feed_dict of the round that starts at sub-batch `first`: for j in
\* range(len(self._replicas)), replica j is fed split_x[i+j], split_x_mask[i+j],
\* split_y[i+j], split_y_mask[i+j] and the weight normalized_weights[i+j].
feed_dict(first) ==
    [r \in 1..config.replicas |->
        LET k == feed_index(first, r - 1)
        IN [sub_batch |-> k,
            x |-> split.split_x[k + 1], x_mask |-> split.split_x_mask[k + 1],
            y |-> split.split_y[k + 1], y_mask |-> split.split_y_mask[k + 1],
            weight |-> normalized_weights[k + 1]]]

fed_weights(feed) == [r \in 1..Len(feed) |-> feed[r].weight]

\* One iteration of the accumulate loop: the sub-batches i .. i+len(replicas)-1 and
\* their normalized weights are fed to the replicas and accum_ops is run.
Accumulate ==
    /\ pc = "accumulate"
    /\ feeds' = Append(feeds, feed_dict(i))
    /\ UNCHANGED round_returns
    /\ \E outs \in [1..config.replicas -> ReplicaOutputs] :
           LET w == fed_weights(feed_dict(i))
               losses == [j \in 1..config.replicas |-> outs[j].loss]
               grads == [j \in 1..config.replicas |-> grad_of(outs[j].grad)]
           IN /\ accumulated_loss' = rat_add(accumulated_loss, summed_loss_of(losses, w))
              /\ accumulated_gradient' =
                     rat_add(accumulated_gradient, sum_gradients(grads, w).value)
              /\ outputs' = outputs \o outs
    /\ i' = i + config.replicas
    /\ pc' = IF i + config.replicas < Len(split.split_x) THEN "accumulate" ELSE "apply"
    /\ step' = "accumulate"
    /\ ops_log' = logged(ops_log, "accumulate")
    /\ call_ops' = Append(call_ops, "accumulate")
    /\ UNCHANGED <<config, args, start_points, split, normalized_weights, apply_ops,
                   global_step, outcome, calls>>
    /\ UNCHANGED graph_vars

\* A handler that swallows the worker's exception and goes on to apply.
WorkerFailureSwallowed ==
    /\ pc' = "apply"
    /\ outcome' = "WorkerError"
    /\ UNCHANGED <<args, start_points, split, normalized_weights, outputs, i, feeds,
                   round_returns>>

\* The exception raised by session.run at line 100 is not caught: it leaves update.
WorkerFailureLeaves == EndCall("WorkerError")

\* session.run of a round raises because a replica fails.  The assign_add ops of
\* the round that had already run keep their effect; which ones had is not
\* determined.  The exception leaves update: nothing resets the accumulator.
AccumulateFails ==
    /\ pc = "accumulate"
    /\ \E outs \in [1..config.replicas -> ReplicaOutputs], done \in SUBSET {"loss", "grad"} :
           LET w == fed_weights(feed_dict(i))
               losses == [j \in 1..config.replicas |-> outs[j].loss]
               grads == [j \in 1..config.replicas |-> grad_of(outs[j].grad)]
           IN /\ accumulated_loss' =
                     IF "loss" \in done
                     THEN rat_add(accumulated_loss, summed_loss_of(losses, w))
                     ELSE accumulated_loss
              /\ accumulated_gradient' =
                     IF "grad" \in done
                     THEN rat_add(accumulated_gradient, sum_gradients(grads, w).value)
                     ELSE accumulated_gradient
              /\ ops_log' = IF done = {} THEN ops_log ELSE logged(ops_log, "accumulate")
              /\ call_ops' = IF done = {} THEN call_ops ELSE Append(call_ops, "accumulate")
    /\ step' = "accumulate"
    /\ WorkerFailureLeaves
    /\ UNCHANGED <<config, apply_ops, global_step, calls>>
    /\ UNCHANGED graph_vars

\* ------------------------------------------------ update, lines 102-111
\* fetches = self._graph.apply_ops is the graph's own list, not a copy, and
\* fetches += summary_ops extends that list in place.  session.run(fetches) runs
\* apply_grads (the optimizer step, which advances global_step); the tuple
\* assignment then needs exactly 3 values (4 with the summary) or raises ValueError.
fetches_of(ops, write_summary) ==
    IF write_summary THEN Append(ops, "merged_summary") ELSE ops

Apply ==
    /\ pc = "apply"
    /\ step' = "apply"
    /\ IF args.write_summary /\ ~config.summary_writer
       THEN \* assert self._summary_writer is not None
            /\ EndCall("AssertionError")
            /\ UNCHANGED <<apply_ops, global_step, ops_log, call_ops>>
       ELSE LET fetches == fetches_of(apply_ops, args.write_summary)
                wanted == IF args.write_summary THEN 4 ELSE 3
            IN /\ apply_ops' = fetches
               /\ global_step' = global_step + 1
               /\ ops_log' = logged(ops_log, "apply")
               /\ call_ops' = Append(call_ops, "apply")
               /\ IF Len(fetches) = wanted
                  THEN /\ pc' = "reset"
                       /\ UNCHANGED <<outcome, args, start_points, split,
                                      normalized_weights, outputs, i, feeds,
                                      round_returns>>
                  ELSE EndCall("ValueError")
    /\ UNCHANGED <<config, accumulated_loss, accumulated_gradient, calls>>
    /\ UNCHANGED graph_vars

\* ------------------------------------------------ update, lines 113-117
\* session.run(self._graph.reset_ops): every accumulator is assigned zeros; update
\* returns.
Reset ==
    /\ pc = "reset"
    /\ accumulated_loss' = Zero
    /\ accumulated_gradient' = Zero
    /\ step' = "reset"
    /\ ops_log' = logged(ops_log, "reset")
    /\ call_ops' = Append(call_ops, "reset")
    /\ EndCall("returned")
    /\ UNCHANGED <<config, apply_ops, global_step, calls>>
    /\ UNCHANGED graph_vars

\* ----------------------------------------------------- the whole of update
Init == InitWith(Configs(MaxUpdateReplicas, 1..MaxTokensPerDevice, BOOLEAN))

\* update is called on a minibatch of up to MaxUpdateSents examples.
Update ==
    /\ pc = "idle"
    /\ \E n \in 1..MaxUpdateSents :
           \E s \in [1..n -> 0..MaxLen], t \in [1..n -> 0..MaxLen], ws \in BOOLEAN :
               UpdateSplit(minibatch_of(s, t), ws)

Next == Update \/ Accumulate \/ AccumulateFails \/ Apply \/ Reset

Spec == Init /\ [][Next]_vars

\* ------------------------------------- one update call on a new ModelUpdater
\* The first call of update on a ModelUpdater, followed to its end, on minibatches
\* of up to MaxCallSents examples.
MaxCallSents == 3
MaxCallReplicas == 2

InitCall == InitWith(Configs(MaxCallReplicas, 1..MaxTokensPerDevice, {TRUE}))

CallUpdate ==
    /\ pc = "idle" /\ calls = 0
    /\ \E n \in 1..MaxCallSents :
           \E s \in [1..n -> 0..MaxLen], t \in [1..n -> 0..MaxLen], ws \in BOOLEAN :
               UpdateSplit(minibatch_of(s, t), ws)

NextCall == CallUpdate \/ Accumulate \/ AccumulateFails \/ Apply \/ Reset

SpecCall == InitCall /\ [][NextCall]_vars

\* ------------------------------------- the greedy split loops, step by step
\* The `while True` loops of _split_minibatch_into_n (lines 147-164) and of the
\* token-limited branch of _split_minibatch_for_device_size (lines 201-217), one
\* iteration per step, on the start_points list built so far.
MaxLoopSents == 2

LoopMinibatches ==
    UNION {{minibatch_of(s, t) : s \in [1..n -> 0..MaxLen], t \in [1..n -> 0..MaxLen]} :
              n \in 1..MaxLoopSents}
    \cup {minibatch_of(l.source, l.target) : l \in ScenarioLengths}

\* Lines 135-146 and 196-200: the split function has been called on a minibatch,
\* the lengths are taken and start_points = [0].
InitLoop ==
    /\ config \in Configs(1, 1..MaxTokensPerDevice \cup ScenarioTokenLimits, {TRUE})
    /\ config.max_sentences_per_device = 0
    /\ \E mb \in LoopMinibatches :
           args = [x |-> mb.x, x_mask |-> mb.x_mask, y |-> mb.y, y_mask |-> mb.y_mask,
                   write_summary |-> FALSE]
    /\ start_points = <<0>>
    /\ pc = IF fixed_count_policy_of(config) THEN "into_n_loop" ELSE "device_loop"
    /\ outcome = "running"
    /\ step = "split"
    /\ calls = 1
    /\ split = NoSplit
    /\ normalized_weights = <<>>
    /\ i = 0
    /\ InitGraph
    /\ outputs = <<>>
    /\ ops_log = <<>>
    /\ call_ops = <<>>
    /\ round_feed = NoFeed
    /\ feeds = <<>>
    /\ round_returns = <<>>
    /\ grad_is_none = [j \in 1..config.replicas |-> FALSE]
    /\ accum_ops = "built"

\* What one iteration does with the next_start_point its for loop found.
LoopIteration(next_start_point, stop) ==
    /\ IF stop
       THEN pc' = "loop_done" /\ UNCHANGED start_points
       ELSE start_points' = Append(start_points, next_start_point.value) /\ UNCHANGED pc
    /\ UNCHANGED <<config, args, split, normalized_weights, i, accumulated_loss,
                   accumulated_gradient, apply_ops, global_step, outcome, calls,
                   outputs, step, ops_log, call_ops, feeds, round_returns>>
    /\ UNCHANGED graph_vars

\* One iteration of the loop of _split_minibatch_into_n, lines 148-164.
IntoNIteration ==
    /\ pc = "into_n_loop"
    /\ LET source_lengths == lengths_of(args.x_mask)
           target_lengths == lengths_of(args.y_mask)
           num_sents == Len(source_lengths)
           soft_limit == soft_limit_of(source_lengths, target_lengths,
                                       config.replicas * config.gradient_aggregation_steps)
           first == start_points[Len(start_points)]
           next_start_point == into_n_scan(source_lengths, target_lengths, soft_limit,
                                           first, first + 1, source_lengths[first + 1],
                                           target_lengths[first + 1])
       IN LoopIteration(next_start_point,
                        next_start_point.none \/ next_start_point.value >= num_sents)

\* One iteration of the loop of the token-limited branch, lines 202-217.
DeviceIteration ==
    /\ pc = "device_loop"
    /\ LET source_lengths == lengths_of(args.x_mask)
           target_lengths == lengths_of(args.y_mask)
           first == start_points[Len(start_points)]
           next_start_point == device_scan(source_lengths, target_lengths,
                                           config.max_tokens_per_device, first,
                                           first + 1, source_lengths[first + 1],
                                           target_lengths[first + 1])
       IN LoopIteration(next_start_point, next_start_point.none)

NextLoop == IntoNIteration \/ DeviceIteration

SpecLoop == InitLoop /\ [][NextLoop]_vars

\* The interpreter goes on executing a loop it is in.
SpecLoopFair == SpecLoop /\ WF_vars(IntoNIteration) /\ WF_vars(DeviceIteration)

\* --------------------------------- the accumulate round taken apart
\* session.run(accum_ops, feed_dict) of line 100 in three steps: the round is
\* dispatched with its feed_dict, the replicas compute their loss and gradient in
\* any order, and when all of them have returned the assign_add ops run and
\* session.run returns to the loop.
NotReturned == [returned |-> FALSE, loss |-> 0, grad |-> 0]

DispatchRound ==
    /\ pc = "accumulate"
    /\ pc' = "round"
    /\ feeds' = Append(feeds, feed_dict(i))
    /\ round_returns' = [r \in 1..config.replicas |-> NotReturned]
    /\ step' = "dispatch"
    /\ UNCHANGED <<config, args, start_points, split, normalized_weights, i,
                   accumulated_loss, accumulated_gradient, apply_ops, global_step,
                   outcome, calls, outputs, ops_log, call_ops>>
    /\ UNCHANGED graph_vars

WorkerReturns ==
    /\ pc = "round"
    /\ \E r \in 1..config.replicas, o \in ReplicaOutputs :
           /\ ~round_returns[r].returned
           /\ round_returns' = [round_returns EXCEPT
                                   ![r] = [returned |-> TRUE, loss |-> o.loss, grad |-> o.grad]]
    /\ step' = "worker"
    /\ UNCHANGED <<config, pc, args, start_points, split, normalized_weights, i,
                   accumulated_loss, accumulated_gradient, apply_ops, global_step,
                   outcome, calls, outputs, ops_log, call_ops, feeds>>
    /\ UNCHANGED graph_vars

CompleteRound ==
    /\ pc = "round"
    /\ \A r \in 1..config.replicas : round_returns[r].returned
    /\ LET w == fed_weights(feeds[Len(feeds)])
           losses == [j \in 1..config.replicas |-> round_returns[j].loss]
           grads == [j \in 1..config.replicas |-> grad_of(round_returns[j].grad)]
       IN /\ accumulated_loss' = rat_add(accumulated_loss, summed_loss_of(losses, w))
          /\ accumulated_gradient' =
                 rat_add(accumulated_gradient, sum_gradients(grads, w).value)
          /\ outputs' = outputs \o [j \in 1..config.replicas |->
                                       [loss |-> round_returns[j].loss,
                                        grad |-> round_returns[j].grad]]
    /\ round_returns' = <<>>
    /\ i' = i + config.replicas
    /\ pc' = IF i + config.replicas < Len(split.split_x) THEN "accumulate" ELSE "apply"
    /\ step' = "accumulate"
    /\ ops_log' = logged(ops_log, "accumulate")
    /\ call_ops' = Append(call_ops, "accumulate")
    /\ UNCHANGED <<config, args, start_points, split, normalized_weights, apply_ops,
                   global_step, outcome, calls, feeds>>
    /\ UNCHANGED graph_vars

NextRounds ==
    CallUpdate \/ DispatchRound \/ WorkerReturns \/ CompleteRound \/ Apply \/ Reset

SpecRounds == InitCall /\ [][NextRounds]_vars

\* ------------------------- _ModelUpdateGraph._define_accum_ops on its own
\* The graph is built for replicas of which any may have no gradient for the
\* variable (compute_gradients gives None when the loss does not depend on it).
InitGraphBuild ==
    /\ InitState(Configs(MaxReplicas, {}, {TRUE}))
    /\ fixed_count_policy_of(config) /\ config.gradient_aggregation_steps = 1
    /\ grad_is_none \in [1..config.replicas -> BOOLEAN]
    /\ accum_ops = "undefined"

\* Lines 418-424: summed_grad_vars = self._sum_gradients(...), then one
\* tf.assign_add(accumulated_gradient, g) per pair.  tf.assign_add converts g to a
\* tensor, which raises ValueError ("None values not supported") for g = None.
DefineAccumOps ==
    /\ accum_ops = "undefined"
    /\ LET all_grads == [j \in 1..config.replicas |->
                            IF grad_is_none[j] THEN NoneGrad ELSE grad_of(0)]
           weights == [j \in 1..config.replicas |-> One]
           g == sum_gradients(all_grads, weights)
       IN accum_ops' = IF g.none THEN "ValueError" ELSE "built"
    /\ UNCHANGED <<config, pc, args, start_points, split, normalized_weights, i,
                   accumulated_loss, accumulated_gradient, apply_ops, global_step,
                   outcome, calls, outputs, step, ops_log, call_ops,
                   grad_is_none, round_feed, feeds, round_returns>>

\* The weights fed to replica_weights in the round.
RoundWeights == {Zero, rat(1, 2), One}

\* One session.run of accum_ops: the replicas' gradients evaluate to g and the
\* fed weights are w.
RunAccumOps ==
    /\ accum_ops = "built"
    /\ ~round_feed.ran
    /\ \E g \in [1..config.replicas -> 0..MaxGrad], w \in [1..config.replicas -> RoundWeights] :
           LET grads == [j \in 1..config.replicas |->
                            IF grad_is_none[j] THEN NoneGrad ELSE grad_of(g[j])]
           IN /\ round_feed' = [ran |-> TRUE, grads |-> grads, weights |-> w]
              /\ accumulated_gradient' =
                     rat_add(accumulated_gradient, sum_gradients(grads, w).value)
    /\ UNCHANGED <<config, pc, args, start_points, split, normalized_weights, i,
                   accumulated_loss, apply_ops, global_step, outcome, calls, outputs,
                   step, ops_log, call_ops, grad_is_none, accum_ops, feeds,
                   round_returns>>

NextGraphBuild == DefineAccumOps \/ RunAccumOps

SpecGraphBuild == InitGraphBuild /\ [][NextGraphBuild]_vars

\* ------------------------------------------- the trimming on any 0/1 mask
\* update called on minibatches whose masks are arbitrary 0/1 arrays of shape
\* (seq_len, batch_size), not only runs of 1s followed by padding.
MaxTrimSents == 2
MaxTrimLen == 2

InitTrim == InitWith(Configs(MaxUpdateReplicas, 1..MaxTokensPerDevice, {TRUE}))

TrimAny ==
    /\ pc = "idle" /\ calls = 0
    /\ \E n \in 1..MaxTrimSents, sl \in 1..MaxTrimLen, tl \in 1..MaxTrimLen :
           \E xm \in [1..n -> [1..sl -> {0, 1}]], ym \in [1..n -> [1..tl -> {0, 1}]] :
               UpdateSplit([x |-> [b \in 1..n |-> b], x_mask |-> xm,
                            y |-> [b \in 1..n |-> b], y_mask |-> ym], FALSE)

\* The documented trimming scenario: source lengths [3,5,2] in arrays whose
\* sequence axis is 6.
TrimScenario ==
    /\ pc = "idle" /\ calls = 0
    /\ UpdateSplit([x |-> <<1, 2, 3>>, x_mask |-> mask_of(<<3, 5, 2>>, 6),
                    y |-> <<1, 2, 3>>, y_mask |-> mask_of(<<2, 3, 1>>, 6)], FALSE)

NextTrim == TrimAny \/ TrimScenario

SpecTrim == InitTrim /\ [][NextTrim]_vars

\* ================================================================== claims
\* What the claims speak of, read off the state of a call in progress.
batch_size == Len(args.x)
n_real == Len(start_points)
n_sub_batches == Len(split.split_x)
fixed_count_policy == config.max_sentences_per_device = 0 /\ config.max_tokens_per_device = 0
sentence_policy == config.max_sentences_per_device > 0 /\ config.max_tokens_per_device = 0
token_policy == config.max_sentences_per_device = 0 /\ config.max_tokens_per_device > 0
fixed_n == config.replicas * config.gradient_aggregation_steps

\* The examples [p, q) of sub-batch k, 0-based, from the start points alone.
bin_start(k) == start_points[k]
bin_end(k) == IF k < n_real THEN start_points[k + 1] ELSE batch_size
bin_size(k) == bin_end(k) - bin_start(k)

\* The largest of lengths[p..q] (0-based, inclusive).
range_max(lengths, p, q) == max_of(SubSeq(lengths, p + 1, q + 1))

RECURSIVE concat(_)
concat(ss) == IF ss = <<>> THEN <<>> ELSE Head(ss) \o concat(Tail(ss))

\* The start points begin at 0, increase strictly and lie below the batch size, and
\* the non-dummy sub-batches are non-empty and concatenate to the minibatch.
lossless_partition ==
    /\ n_real >= 1
    /\ start_points[1] = 0
    /\ \A k \in 1..n_real : start_points[k] < batch_size
    /\ \A k \in 1..(n_real - 1) : start_points[k] < start_points[k + 1]
    /\ \A k \in 1..n_real : split.split_x[k] # <<>>
    /\ concat(SubSeq(split.split_x, 1, n_real)) = args.x
    /\ concat(SubSeq(split.split_y, 1, n_real)) = args.y
    /\ lengths_of(concat(SubSeq(split.split_x_mask, 1, n_real))) = lengths_of(args.x_mask)
    /\ lengths_of(concat(SubSeq(split.split_y_mask, 1, n_real))) = lengths_of(args.y_mask)

\* C1: for any non-empty minibatch and any split policy (fixed-count, example-count
\* capacity, token capacity) the split step of update returns start points that begin
\* at 0, increase strictly and lie below N, and the non-dummy sub-batches cover the
\* examples exactly once, in order.
C1_LosslessPartition ==
    step = "split" => (outcome = "running" /\ lossless_partition)

\* The same property for the calls whose split returned (checked beside C1).
C1_PartitionWhenReturned ==
    (step = "split" /\ outcome = "running") => lossless_partition

\* C2: the list _split_and_pad_minibatch returns has a length that is a multiple of
\* the worker count w: with r = len(start_points) % w, exactly w - r dummies are
\* appended when r # 0 and none when r = 0; the five lists have the same length.
C2_WorkerMultiple ==
    (step = "split" /\ outcome = "running") =>
        LET w == config.replicas
            r == n_real % w
        IN /\ n_sub_batches % w = 0
           /\ n_sub_batches - n_real = (IF r = 0 THEN 0 ELSE w - r)
           /\ Len(split.split_x_mask) = n_sub_batches
           /\ Len(split.split_y) = n_sub_batches
           /\ Len(split.split_y_mask) = n_sub_batches
           /\ Len(split.weights) = n_sub_batches

\* Two real sub-batches on three workers: one dummy is appended.
C2_Witness ==
    /\ step = "split" /\ outcome = "running"
    /\ config.replicas = 3 /\ n_real = 2 /\ n_sub_batches = 3

\* The tokens (1s of both masks) of the examples of sub-batch k, before trimming.
bin_tokens(k) ==
    sum(SubSeq(lengths_of(args.x_mask), bin_start(k) + 1, bin_end(k)))
    + sum(SubSeq(lengths_of(args.y_mask), bin_start(k) + 1, bin_end(k)))
minibatch_tokens == mask_total(args.x_mask) + mask_total(args.y_mask)

C7_AtMostN ==
    (step = "split" /\ fixed_count_policy) =>
        (outcome = "running" /\ n_real <= fixed_n)

\* The bound is attained with more than one sub-batch.
C7_Witness ==
    /\ step = "split" /\ fixed_count_policy /\ outcome = "running"
    /\ fixed_n >= 2 /\ n_real = fixed_n

\* range(0, N, k) as a list.
sentence_range(n_sents, k) == [m \in 1..ceil_div(n_sents, k) |-> (m - 1) * k]

\* C8: with max_sentences_per_device = k > 0 and max_tokens_per_device = 0 the split
\* returns the start points 0, k, 2k, ... below N, and update splits the minibatch
\* into chunks of exactly k examples, only the last one allowed to be smaller.
C8_SentenceChunks ==
    (step = "split" /\ sentence_policy) =>
        /\ outcome = "running"
        /\ start_points = sentence_range(batch_size, config.max_sentences_per_device)
        /\ \A k \in 1..(n_real - 1) : Len(split.split_x[k]) = config.max_sentences_per_device
        /\ Len(split.split_x[n_real]) <= config.max_sentences_per_device

\* C9: with a token limit L every sub-batch of two or more examples keeps
\* (max source length) * size <= L and (max target length) * size <= L; every
\* sub-batch but the last is maximal (the next example would break a bound); an
\* example that alone exceeds L forms a sub-batch, not an error; and source lengths
\* [10,10,10] with L = 15 give the start points [0,1,2].
C9_TokenCapacity ==
    (step = "split" /\ token_policy) =>
        LET L == config.max_tokens_per_device
            src == lengths_of(args.x_mask)
            tgt == lengths_of(args.y_mask)
        IN /\ outcome = "running"
           /\ lossless_partition
           /\ \A k \in 1..n_real :
                  bin_size(k) >= 2 =>
                      /\ range_max(src, bin_start(k), bin_end(k) - 1) * bin_size(k) <= L
                      /\ range_max(tgt, bin_start(k), bin_end(k) - 1) * bin_size(k) <= L
           /\ \A k \in 1..(n_real - 1) :
                  \/ range_max(src, bin_start(k), bin_end(k)) * (bin_size(k) + 1) > L
                  \/ range_max(tgt, bin_start(k), bin_end(k)) * (bin_size(k) + 1) > L
           /\ (src = <<10, 10, 10>> /\ L = 15) => start_points = <<0, 1, 2>>

\* A sub-batch of two examples that fills the limit exactly, closed before the
\* next example, which opens the next sub-batch.
C9_Witness ==
    /\ step = "split" /\ token_policy /\ outcome = "running"
    /\ n_real = 2 /\ bin_size(1) = 2
    /\ range_max(lengths_of(args.x_mask), 0, 1) * 2 = config.max_tokens_per_device

\* An example that alone exceeds the limit forms a sub-batch of its own.
C9_OversizeReached ==
    /\ step = "split" /\ token_policy /\ outcome = "running"
    /\ \E k \in 1..n_real :
           /\ bin_size(k) = 1
           /\ lengths_of(args.x_mask)[bin_start(k) + 1] > config.max_tokens_per_device

\* The documented scenario is among the states reached.
C9_ScenarioReached ==
    /\ step = "split" /\ token_policy /\ config.max_tokens_per_device = 15
    /\ lengths_of(args.x_mask) = <<10, 10, 10>> /\ start_points = <<0, 1, 2>>

\* The first example j after p whose addition to the sub-batch opened at p makes
\* (max source length + max target length) * size exceed soft_limit; -1 if none.
overfill_set(p) ==
    LET src == lengths_of(args.x_mask)
        tgt == lengths_of(args.y_mask)
        limit == soft_limit_of(src, tgt, fixed_n)
    IN {j \in (p + 1)..(batch_size - 1) :
           (range_max(src, p, j) + range_max(tgt, p, j)) * (j - p + 1) > limit}
first_overfill(p) ==
    IF overfill_set(p) = {} THEN -1
    ELSE CHOOSE j \in overfill_set(p) : \A m \in overfill_set(p) : j <= m

\* C10, as stated: in the fixed-count split, when adding example j to the open
\* sub-batch would exceed soft_limit, the sub-batch is closed before j and j is the
\* start point of the next one.
C10_ClosedBeforeOverfill ==
    (step = "split" /\ fixed_count_policy /\ outcome = "running") =>
        \A k \in 1..n_real :
            first_overfill(bin_start(k)) # -1 =>
                (k < n_real /\ start_points[k + 1] = first_overfill(bin_start(k)))

\* C10, amended: the example j that over-fills the sub-batch is still put into it;
\* the sub-batch is closed after j, and j + 1 is the next start point when it is
\* below N; when j is the last example, or no example over-fills, the sub-batch is
\* the last one.
C10_ClosedAfterOverfill ==
    (step = "split" /\ fixed_count_policy /\ outcome = "running") =>
        \A k \in 1..n_real :
            LET j == first_overfill(bin_start(k))
            IN IF j # -1 /\ j + 1 < batch_size
               THEN k < n_real /\ start_points[k + 1] = j + 1
               ELSE k = n_real

\* A sub-batch over-filled by example j, with j + 1 opening the next sub-batch.
C10_Witness ==
    /\ step = "split" /\ fixed_count_policy /\ outcome = "running"
    /\ n_real >= 2
    /\ first_overfill(0) # -1
    /\ start_points[2] = first_overfill(0) + 1

\* The operations a completed call runs: its accumulate rounds, one apply, one reset.
accumulate_apply_reset(ops) ==
    /\ Len(ops) >= 3
    /\ \A k \in 1..(Len(ops) - 2) : ops[k] = "accumulate"
    /\ ops[Len(ops) - 1] = "apply"
    /\ ops[Len(ops)] = "reset"

\* C4: every update call drives the accumulator in the strict order
\* accumulate* -> apply -> reset: within a call all its accumulate rounds run before
\* its single apply and the reset comes right after that apply; a completed call
\* has run exactly one apply and one reset; and on the accumulator an apply is
\* followed by a reset, never by an accumulate of any call.
C4_StrictOrder ==
    /\ \A k \in 1..Len(call_ops) :
           /\ call_ops[k] = "apply" =>
                  (k >= 2 /\ \A m \in 1..(k - 1) : call_ops[m] = "accumulate")
           /\ call_ops[k] = "reset" => (k >= 3 /\ call_ops[k - 1] = "apply")
    /\ pc = "reset" => Len(call_ops) = (n_sub_batches \div config.replicas) + 1
    /\ outcome = "returned" => accumulate_apply_reset(call_ops)
    /\ Len(ops_log) = 2 =>
           ops_log \in {<<"accumulate", "accumulate">>, <<"accumulate", "apply">>,
                        <<"apply", "reset">>, <<"reset", "accumulate">>}

\* C5: when an update call is about to run its first accumulate round,
\* accumulated_loss and the accumulated gradient are zero, whatever the earlier
\* calls did, those that aborted included.
C5_ZeroAtFirstAccumulate ==
    (pc = "accumulate" /\ i = 0) =>
        (accumulated_loss = Zero /\ accumulated_gradient = Zero)

\* The weighted sums over all sub-batches of the call, from what the replicas
\* computed: sum_k w'_k * loss_k and sum_k w'_k * grad_k.
weighted_loss_sum ==
    rat_sum([k \in 1..Len(outputs) |-> rat_mul(normalized_weights[k], rat(outputs[k].loss, 1))])
weighted_grad_sum ==
    rat_sum([k \in 1..Len(outputs) |-> rat_mul(normalized_weights[k], rat(outputs[k].grad, 1))])

\* C6: the accumulator state handed to apply is the weighted sum over all the
\* sub-batches of the minibatch, of the losses and of the gradients, whatever the
\* grouping of the sub-batches into rounds.
C6_WeightedSum ==
    pc = "apply" =>
        /\ Len(outputs) = n_sub_batches
        /\ accumulated_loss = weighted_loss_sum
        /\ accumulated_gradient = weighted_grad_sum

\* The same for the first call on a new ModelUpdater (checked beside C6).
C6_FirstCallWeightedSum ==
    (pc = "apply" /\ calls = 1) =>
        /\ Len(outputs) = n_sub_batches
        /\ accumulated_loss = weighted_loss_sum
        /\ accumulated_gradient = weighted_grad_sum

\* C11: for source lengths [3,5,2,4], target lengths [2,3,1,2] and n = 2 the
\* fixed-count split computes soft_limit = 16 and returns start points [0, 3]; the
\* two sub-batches have unnormalized weights 16 and 6 and normalized weights 16/22
\* and 6/22.
scenario_a == minibatch_of(<<3, 5, 2, 4>>, <<2, 3, 1, 2>>)
scenario_a_split ==
    /\ step = "split" /\ outcome = "running"
    /\ args.x_mask = scenario_a.x_mask /\ args.y_mask = scenario_a.y_mask
    /\ fixed_count_policy /\ fixed_n = 2

C11_ScenarioA ==
    scenario_a_split =>
        /\ soft_limit_of(lengths_of(args.x_mask), lengths_of(args.y_mask), fixed_n) = 16
        /\ start_points = <<0, 3>>
        /\ SubSeq(split.weights, 1, 2) = <<16, 6>>
        /\ SubSeq(normalized_weights, 1, 2) = <<rat(16, 22), rat(6, 22)>>
        /\ \A k \in 3..Len(split.weights) : split.weights[k] = 0

C11_Witness ==
    /\ scenario_a_split
    /\ start_points = <<0, 3>>
    /\ normalized_weights = <<rat(16, 22), rat(6, 22)>>

\* C12: in one accumulate round a worker that marks the parameter unused
\* contributes zero while the weighted gradients of the workers that report it are
\* still summed into the accumulated gradient; only when every worker marks it
\* unused does the round add nothing; and no case of unused markers is an error.
C12_UnusedContributesZero ==
    /\ accum_ops \in {"undefined", "built"}
    /\ round_feed.ran =>
           accumulated_gradient =
               sum_gradients_skipping_none(round_feed.grads, round_feed.weights).value

\* Beside C12: when no replica marks the parameter unused the graph is built and
\* the round adds the weighted sum of all the replicas' gradients.
C12_AllReportedSummed ==
    (\A j \in 1..config.replicas : ~grad_is_none[j]) =>
        /\ accum_ops \in {"undefined", "built"}
        /\ round_feed.ran =>
               accumulated_gradient =
                   sum_gradients_skipping_none(round_feed.grads, round_feed.weights).value

\* C13: when the unnormalized weights of the minibatch sum to zero, update fails
\* with an arithmetic error at the normalization, before any accumulate round is
\* dispatched: such a call never gets to the accumulate loop, to apply or to reset,
\* it dispatches nothing and its normalized weights are never used.
C13_ZeroSumAborts ==
    (outcome = "running" /\ sum(split.weights) = 0) =>
        /\ pc \notin {"accumulate", "apply", "reset"}
        /\ outputs = <<>>

\* Beside C13: what the call does instead.  Every normalized weight is nan and the
\* call goes on to dispatch its rounds.
C13_NanWeightsDispatched ==
    (outcome = "running" /\ sum(split.weights) = 0) =>
        /\ \A k \in 1..Len(normalized_weights) : normalized_weights[k] = NaN
        /\ pc \in {"accumulate", "apply", "reset"}

\* C14: for every sub-batch the trimmed source (target) mask has sequence length
\* equal to the largest source (target) length among the sub-batch's examples,
\* source and target being trimmed independently, and trimming keeps every mask
\* entry equal to 1: each trimmed mask holds as many 1s as the untrimmed slice, for
\* every 0/1 mask.
untrimmed_x(k) == split_array(args.x_mask, start_points)[k]
untrimmed_y(k) == split_array(args.y_mask, start_points)[k]
seq_len_of(m) == Len(m[1])
is_prefix_mask(mask) ==
    \A b \in 1..Len(mask) : \A t \in 1..(Len(mask[b]) - 1) : mask[b][t] >= mask[b][t + 1]

trimming_keeps_ones ==
    \A k \in 1..n_real :
        /\ seq_len_of(split.split_x_mask[k]) = max_of(lengths_of(untrimmed_x(k)))
        /\ seq_len_of(split.split_y_mask[k]) = max_of(lengths_of(untrimmed_y(k)))
        /\ mask_total(split.split_x_mask[k]) = mask_total(untrimmed_x(k))
        /\ mask_total(split.split_y_mask[k]) = mask_total(untrimmed_y(k))

C14_TrimmingKeepsOnes ==
    (step = "split" /\ outcome = "running") => trimming_keeps_ones

\* Beside C14: the same for the masks whose columns are a run of 1s followed by
\* 0s, and the documented scenario (lengths [3,5,2], sequence axis 6, trimmed to 5).
C14_PrefixMasksKept ==
    (step = "split" /\ outcome = "running"
        /\ is_prefix_mask(args.x_mask) /\ is_prefix_mask(args.y_mask)) =>
            trimming_keeps_ones
C14_ScenarioReached ==
    /\ step = "split" /\ outcome = "running"
    /\ args.x_mask = mask_of(<<3, 5, 2>>, 6)
    /\ n_real = 1
    /\ seq_len_of(split.split_x_mask[1]) = 5
    /\ seq_len_of(split.split_y_mask[1]) = 3

\* C15: the accumulated loss and gradient handed to apply do not depend on what
\* the workers compute for the dummy sub-batches.  Every accumulate round adds to
\* the accumulators a value that is determined by the outputs of the round's real
\* sub-batches alone, so two runs that differ only in the dummy outputs have the
\* same accumulator state after every round and at apply.
is_real(k) == k <= n_real
real_loss_sum(outs, first) ==
    rat_sum([j \in 1..config.replicas |->
                IF is_real(first + j)
                THEN rat_mul(normalized_weights[first + j], rat(outs[first + j].loss, 1))
                ELSE Zero])
real_grad_sum(outs, first) ==
    rat_sum([j \in 1..config.replicas |->
                IF is_real(first + j)
                THEN rat_mul(normalized_weights[first + j], rat(outs[first + j].grad, 1))
                ELSE Zero])

round_completed == pc = "accumulate" /\ Len(outputs') = Len(outputs) + config.replicas

C15_DummyIndependent ==
    [][round_completed =>
           /\ accumulated_loss' = rat_add(accumulated_loss, real_loss_sum(outputs', i))
           /\ accumulated_gradient' =
                  rat_add(accumulated_gradient, real_grad_sum(outputs', i))]_vars

C15_Witness ==
    /\ pc = "apply"
    /\ n_sub_batches > n_real
    /\ outputs[n_sub_batches].loss = MaxLoss /\ outputs[n_sub_batches].grad = MaxGrad
    /\ outputs[1].loss = MaxLoss
    /\ accumulated_loss = rat(MaxLoss, 1)
    /\ accumulated_gradient = Zero

\* C16: when a worker fails during an accumulate round of an update call, the call
\* aborts without running apply: the call has run accumulate rounds only, it is
\* over, the optimizer step has not run and the global step and the apply ops are
\* as they were before the call.
C16_WorkerFailureNoApply ==
    outcome = "WorkerError" =>
        /\ pc = "idle"
        /\ \A k \in 1..Len(call_ops) : call_ops[k] = "accumulate"
        /\ global_step = 0
        /\ Len(apply_ops) = 3

\* A worker failed in the second round of a call, after the first round completed.
C16_Witness ==
    /\ outcome = "WorkerError"
    /\ Len(call_ops) >= 2
    /\ global_step = 0

\* C17: with w workers the padded sub-batch list is dispatched in consecutive
\* rounds of exactly w.  Sub-batch k goes to worker k mod w in round k div w with
\* its own arrays and its own normalized weight; each worker receives exactly one
\* sub-batch per round; no sub-batch is dispatched twice and at apply every
\* sub-batch has been dispatched; and a round is dispatched only when every worker
\* of the rounds before it has returned.
C17_RoundsOfW ==
    outcome = "running" =>
        LET w == config.replicas
        IN /\ \A r \in 1..Len(feeds) :
                  /\ Len(feeds[r]) = w
                  /\ \A j \in 1..w :
                         LET k == (r - 1) * w + (j - 1)
                         IN /\ k % w = j - 1 /\ k \div w = r - 1
                            /\ feeds[r][j].sub_batch = k
                            /\ feeds[r][j].x = split.split_x[k + 1]
                            /\ feeds[r][j].x_mask = split.split_x_mask[k + 1]
                            /\ feeds[r][j].y = split.split_y[k + 1]
                            /\ feeds[r][j].y_mask = split.split_y_mask[k + 1]
                            /\ feeds[r][j].weight = normalized_weights[k + 1]
           /\ Len(feeds) * w <= n_sub_batches
           /\ pc \in {"apply", "reset"} => Len(feeds) * w = n_sub_batches
           /\ pc = "round" => Len(outputs) = (Len(feeds) - 1) * w
           /\ pc # "round" => Len(outputs) = Len(feeds) * w

\* The second round of a call with two workers is in flight, one worker back.
C17_Witness ==
    /\ pc = "round"
    /\ config.replicas = 2
    /\ Len(feeds) = 2
    /\ feeds[2][1].sub_batch = 2 /\ feeds[2][2].sub_batch = 3
    /\ round_returns[1].returned /\ ~round_returns[2].returned
    /\ Len(outputs) = 2

\* C18: update never changes the graph's apply-op list: after any sequence of
\* update calls a call fetches exactly the three apply ops (plus the summary op
\* when write_summary is set), so no call ends in the ValueError of the tuple
\* assignment and every call that gets to apply goes on to reset.
C18_ApplyOpsUnchanged ==
    /\ apply_ops = <<"global_step", "apply_grads", "final_loss">>
    /\ outcome # "ValueError"

\* C19: when neither capacity limit is configured, update splits into at most
\* n = worker_count * gradient_aggregation_steps sub-batches and the number of
\* accumulate rounds it runs for the minibatch is at least 1 and at most
\* gradient_aggregation_steps.
rounds_run == Cardinality({k \in 1..Len(call_ops) : call_ops[k] = "accumulate"})

C19_RoundsWithinAggregationSteps ==
    (fixed_count_policy /\ outcome = "running") =>
        /\ n_real <= fixed_n
        /\ n_sub_batches <= fixed_n
        /\ rounds_run <= config.gradient_aggregation_steps
        /\ pc \in {"apply", "reset"} =>
               /\ rounds_run >= 1
               /\ rounds_run * config.replicas = n_sub_batches

\* One worker, two aggregation steps, and both rounds have run.
C19_Witness ==
    /\ fixed_count_policy /\ pc = "apply"
    /\ config.replicas = 1 /\ config.gradient_aggregation_steps = 2
    /\ rounds_run = 2

\* C20: both greedy split loops terminate for every non-empty minibatch: each
\* iteration of the outer `while True` either breaks or appends a start point
\* strictly greater than the previous one and below N, so at most N start points
\* are ever produced, and the loop is left.
in_split_loop == pc \in {"into_n_loop", "device_loop"}
last_start_point == start_points[Len(start_points)]

C20_LoopsTerminate ==
    /\ [][in_split_loop =>
              \/ pc' = "loop_done" /\ start_points' = start_points
              \/ /\ pc' = pc
                 /\ Len(start_points') = Len(start_points) + 1
                 /\ SubSeq(start_points', 1, Len(start_points)) = start_points
                 /\ last_start_point' > last_start_point
                 /\ last_start_point' < batch_size]_vars
    /\ []((in_split_loop \/ pc = "loop_done") => Len(start_points) <= batch_size)
    /\ (in_split_loop ~> pc = "loop_done")

\* The token-limited loop was left with N start points, one per example.
C20_Witness ==
    /\ pc = "loop_done"
    /\ batch_size = 3
    /\ start_points = <<0, 1, 2>>

\* Beside C20: the loops taken step by step end with the start points the split
\* functions return.
C20_SameAsSplit ==
    pc = "loop_done" =>
        start_points = update_start_points(config, args.x_mask, args.y_mask).value

====
